---- MODULE Spec2Model ----
(***************************************************************************)
(* Model of spin_wheel.py: the SpinningWheelSimulation state, its four     *)
(* mutating entry points (resize, place_ball_near_rim, randomize_spin,     *)
(* update) and the frame loop of main().                                   *)
(*                                                                         *)
(* Python floats are modelled as fixed-point numbers: the integer v stands *)
(* for the real v / SCALE.  Every product and quotient is rounded to the   *)
(* nearest representable value, as every float operation rounds; sums and  *)
(* differences are exact.  TLC integers are 32 bits wide, so products and  *)
(* squares are computed limb-wise and never as one wide intermediate.      *)
(***************************************************************************)
EXTENDS Integers, Sequences, FiniteSets, TLC

VARIABLES sim, obs, steps, pc, dt_ms, events, running, frame

vars == <<sim, obs, steps, pc, dt_ms, events, running, frame>>

-----------------------------------------------------------------------------
(* Fixed-point arithmetic *)

SCALE == 100 * 100

Abs(a) == IF a < 0 THEN -a ELSE a

Sgn(a) == IF a < 0 THEN -1 ELSE IF a > 0 THEN 1 ELSE 0

Max(a, b) == IF a >= b THEN a ELSE b

Min(a, b) == IF a <= b THEN a ELSE b

\* |a| * |b| / SCALE rounded to nearest, by limbs of base SCALE
MulAbs(a, b) ==
    LET qa == a \div SCALE
        ra == a % SCALE
        qb == b \div SCALE
        rb == b % SCALE
    IN  qa * qb * SCALE + qa * rb + ra * qb + (ra * rb + SCALE \div 2) \div SCALE

\* float product a * b
Mul(a, b) == Sgn(a) * Sgn(b) * MulAbs(Abs(a), Abs(b))

\* <<q, r>> with a * b = q * c + r and 0 <= r < c, for 0 <= a < c, b >= 0
RECURSIVE MulDivQR(_, _, _)
MulDivQR(a, b, c) ==
    IF b = 0 THEN <<0, 0>>
    ELSE LET h == MulDivQR(a, b \div 2, c)
             t == 2 * h[2] + (IF b % 2 = 1 THEN a ELSE 0)
         IN  <<2 * h[1] + t \div c, t % c>>

\* |a| * |b| / c rounded to nearest, c > 0
MulDivAbs(a, b, c) ==
    LET qr == MulDivQR(a % c, b, c)
    IN  (a \div c) * b + qr[1] + (IF 2 * qr[2] >= c THEN 1 ELSE 0)

\* float quotient a / c
Div(a, c) == Sgn(a) * Sgn(c) * MulDivAbs(Abs(a), SCALE, Abs(c))

\* a^2 as three limbs <<h, m, l>> of base SCALE, value h*SCALE^2 + m*SCALE + l
Sq3(a) ==
    LET a1 == a \div SCALE
        a0 == a % SCALE
    IN  <<a1 * a1, 2 * a1 * a0, a0 * a0>>

Norm3(t) ==
    LET m2 == t[2] + t[3] \div SCALE
    IN  <<t[1] + m2 \div SCALE, m2 % SCALE, t[3] % SCALE>>

Add3(s, t) == <<s[1] + t[1], s[2] + t[2], s[3] + t[3]>>

Leq3(s, t) ==
    LET a == Norm3(s)
        b == Norm3(t)
    IN  \/ a[1] < b[1]
        \/ a[1] = b[1] /\ a[2] < b[2]
        \/ a[1] = b[1] /\ a[2] = b[2] /\ a[3] <= b[3]

\* the largest d in lo .. hi - 1 with d^2 <= A (A in limbs), given lo^2 <= A < hi^2
RECURSIVE SqrtSearch(_, _, _)
SqrtSearch(A, lo, hi) ==
    IF hi - lo <= 1 THEN lo
    ELSE LET mid == (lo + hi) \div 2
         IN  IF Leq3(Sq3(mid), A) THEN SqrtSearch(A, mid, hi)
             ELSE SqrtSearch(A, lo, mid)

\* math.hypot(dx, dy), rounded to nearest
Hypot(dx, dy) ==
    LET ax == Abs(dx)
        ay == Abs(dy)
        A  == Norm3(Add3(Sq3(ax), Sq3(ay)))
        d  == SqrtSearch(A, Max(ax, ay), ax + ay + 1)
    IN  IF Leq3(Add3(Sq3(d), <<0, 0, d + 1>>), A) THEN d + 1 ELSE d

-----------------------------------------------------------------------------
(* Config *)

window_size_px == 820

pixels_per_meter == 200 * SCALE

gravity_m_s2 == 5 * SCALE

air_drag_per_second == (10 * SCALE) \div 100

wall_restitution == (25 * SCALE) \div 100

mu_static == (45 * SCALE) \div 100

mu_kinetic == (35 * SCALE) \div 100

inward_radial_accel_m_s2 == (18 * SCALE) \div 10

wheel_angular_friction_per_second == (25 * SCALE) \div 100

ball_angular_friction_per_second == 2 * SCALE

rim_thickness_px == 24 * SCALE

ball_radius_px == 10 * SCALE

spin_impulse_min == (6 * SCALE) \div 10

spin_impulse_max == (12 * SCALE) \div 10

ball_boost_speed_m_s == (22 * SCALE) \div 10

-----------------------------------------------------------------------------
(* Library functions *)

\* Values random.random() * math.tau takes, in radians: pi/2, atan(4/3),
\* 5*pi/4 and 5*pi/3, all in [0, tau)
AngleSamples == {15708, 9273, 39270, 52360}

math_cos(angle) ==
    CASE angle = 15708 -> 0
      [] angle = 9273  -> 6000
      [] angle = 39270 -> -7071
      [] angle = 52360 -> 5000

math_sin(angle) ==
    CASE angle = 15708 -> 10000
      [] angle = 9273  -> 8000
      [] angle = 39270 -> -7071
      [] angle = 52360 -> -8660

\* Values random.uniform(spin_impulse_min, spin_impulse_max) takes
UniformSamples(lo, hi) == {lo, (lo + hi) \div 2, hi}

math_copysign(x, y) == IF y < 0 THEN -Abs(x) ELSE Abs(x)

\* the float 1e-6 of "math.hypot(dx, dy) or 1e-6": the smallest positive value
DistFloor == Max(1, SCALE \div 1000000)

-----------------------------------------------------------------------------
(* SpinningWheelSimulation *)

Ball == [x |-> 0, y |-> 0, vx |-> 0, vy |-> 0]

wheel_radius_of(width, height) ==
    LET visual_radius == Mul(Min(width, height) * SCALE, (45 * SCALE) \div 100)
    IN  Max(40 * SCALE, visual_radius - rim_thickness_px)

\* faulty variant: the velocity along the radial unit vector rotated by -90 degrees
place_ball_clockwise(s, angle) ==
    LET r  == s.wheel_radius_px - ball_radius_px - SCALE
        ux == math_cos(angle)
        uy == math_sin(angle)
        tangential_x == uy
        tangential_y == -ux
        boost == Mul(ball_boost_speed_m_s, pixels_per_meter)
    IN  [s EXCEPT !.ball = [x  |-> s.center_x + Mul(ux, r),
                            y  |-> s.center_y + Mul(uy, r),
                            vx |-> Mul(tangential_x, boost),
                            vy |-> Mul(tangential_y, boost)]]

place_ball_near_rim(s, angle) ==
    LET r  == s.wheel_radius_px - ball_radius_px - SCALE
        ux == math_cos(angle)
        uy == math_sin(angle)
        tangential_x == -uy
        tangential_y == ux
        boost == Mul(ball_boost_speed_m_s, pixels_per_meter)
    IN  [s EXCEPT !.ball = [x  |-> s.center_x + Mul(ux, r),
                            y  |-> s.center_y + Mul(uy, r),
                            vx |-> Mul(tangential_x, boost),
                            vy |-> Mul(tangential_y, boost)]]

\* faulty variant: the resize also stops the ball's spin
resize_stops_spin(s, new_width, new_height, angle) ==
    place_ball_near_rim(
        [s EXCEPT !.width = new_width,
                  !.height = new_height,
                  !.center_x = Mul(new_width * SCALE, SCALE \div 2),
                  !.center_y = Mul(new_height * SCALE, SCALE \div 2),
                  !.wheel_radius_px = wheel_radius_of(new_width, new_height),
                  !.ball_omega = 0],
        angle)

resize(s, new_width, new_height, angle) ==
    place_ball_near_rim(
        [s EXCEPT !.width = new_width,
                  !.height = new_height,
                  !.center_x = Mul(new_width * SCALE, SCALE \div 2),
                  !.center_y = Mul(new_height * SCALE, SCALE \div 2),
                  !.wheel_radius_px = wheel_radius_of(new_width, new_height)],
        angle)

\* faulty variant: the impulse replaces the angular velocity
randomize_spin_overwrite(s, impulse) ==
    [s EXCEPT !.wheel_omega = impulse]

randomize_spin(s, impulse) ==
    [s EXCEPT !.wheel_omega = s.wheel_omega + impulse]

\* __init__: the state after construction, angle being the constructor's draw
NewSimulation(angle) ==
    place_ball_near_rim(
        [width |-> window_size_px,
         height |-> window_size_px,
         center_x |-> Mul(window_size_px * SCALE, SCALE \div 2),
         center_y |-> Mul(window_size_px * SCALE, SCALE \div 2),
         wheel_radius_px |-> wheel_radius_of(window_size_px, window_size_px),
         wheel_angle |-> 0,
         wheel_omega |-> (4 * SCALE) \div 10,
         ball |-> Ball,
         ball_angle |-> 0,
         ball_omega |-> 0],
        angle)

\* The values update's contact branch computes, for a step that makes no contact
NoContact ==
    [contact |-> FALSE, nx |-> 0, ny |-> 0, allowed |-> 0, dist |-> 0,
     v_normal |-> 0, v_tangential |-> 0, v_n |-> 0, slip |-> 0, N |-> 0,
     Jmax_static |-> 0, Jmax_kinetic |-> 0, J_static |-> 0, Jt |-> 0, v_t |-> 0]

\* faulty variant: the kinetic impulse takes the sign of slip
friction_impulse_along_slip(slip, N, dt) ==
    LET Jmax_static == Mul(Mul(mu_static, N), dt)
        Jmax_kinetic == Mul(Mul(mu_kinetic, N), dt)
        J_static == Div(-slip, 3 * SCALE)
    IN  IF Abs(J_static) <= Jmax_static
        THEN J_static
        ELSE math_copysign(Jmax_kinetic, slip)

\* Friction impulse of a contact step (lines 143-151)
friction_impulse(slip, N, dt) ==
    LET Jmax_static == Mul(Mul(mu_static, N), dt)
        Jmax_kinetic == Mul(Mul(mu_kinetic, N), dt)
        J_static == Div(-slip, 3 * SCALE)
    IN  IF Abs(J_static) <= Jmax_static
        THEN J_static
        ELSE -math_copysign(Jmax_kinetic, slip)

\* faulty variant: the wall damps the normal velocity without reversing it
bounce_without_reversal(v_normal) ==
    IF v_normal > 0 THEN Mul(v_normal, wall_restitution) ELSE v_normal

\* Normal velocity after the wall (lines 133-135)
bounce(v_normal) ==
    IF v_normal > 0 THEN Mul(-v_normal, wall_restitution) ELSE v_normal

\* faulty variant: the friction term is added
omega_k_of_added(dt) == Max(0, SCALE + Mul(wheel_angular_friction_per_second, dt))

\* Wheel decay factor (line 107)
omega_k_of(dt) == Max(0, SCALE - Mul(wheel_angular_friction_per_second, dt))

\* faulty variant: the air drag of a whole second is applied at every call
integrate_drag_per_call(s, dt) ==
    LET g  == Mul(gravity_m_s2, pixels_per_meter)
        air_k == Max(0, SCALE - air_drag_per_second)
        vx == Mul(s.ball.vx, air_k)
        vy == Mul(s.ball.vy + Mul(g, dt), air_k)
        wheel_omega == Mul(s.wheel_omega, omega_k_of(dt))
        ball_spin_k == Max(0, SCALE - Mul(ball_angular_friction_per_second, dt))
    IN  [s EXCEPT !.ball = [x  |-> s.ball.x + Mul(vx, dt),
                            y  |-> s.ball.y + Mul(vy, dt),
                            vx |-> vx,
                            vy |-> vy],
                  !.wheel_omega = wheel_omega,
                  !.wheel_angle = s.wheel_angle + Mul(wheel_omega, dt),
                  !.ball_omega = Mul(s.ball_omega, ball_spin_k)]

\* lines 97-113: gravity, air drag, position, wheel decay, ball spin decay
integrate(s, dt) ==
    LET g  == Mul(gravity_m_s2, pixels_per_meter)
        air_k == Max(0, SCALE - Mul(air_drag_per_second, dt))
        vx == Mul(s.ball.vx, air_k)
        vy == Mul(s.ball.vy + Mul(g, dt), air_k)
        wheel_omega == Mul(s.wheel_omega, omega_k_of(dt))
        ball_spin_k == Max(0, SCALE - Mul(ball_angular_friction_per_second, dt))
    IN  [s EXCEPT !.ball = [x  |-> s.ball.x + Mul(vx, dt),
                            y  |-> s.ball.y + Mul(vy, dt),
                            vx |-> vx,
                            vy |-> vy],
                  !.wheel_omega = wheel_omega,
                  !.wheel_angle = s.wheel_angle + Mul(wheel_omega, dt),
                  !.ball_omega = Mul(s.ball_omega, ball_spin_k)]

\* line 118: math.hypot(dx, dy) or 1e-6
dist_of(dx, dy) ==
    LET h == Hypot(dx, dy)
    IN  IF h # 0 THEN h ELSE DistFloor

\* lines 116-121: where the ball is relative to the rim
rim_geometry(s) ==
    LET dx == s.ball.x - s.center_x
        dy == s.ball.y - s.center_y
        dist == dist_of(dx, dy)
    IN  [dist |-> dist, nx |-> Div(dx, dist), ny |-> Div(dy, dist),
         allowed |-> s.wheel_radius_px - ball_radius_px]

\* line 142: the normal force, v_tangential^2 kept in limbs
normal_force(v_tangential, allowed, ny) ==
    Max(0, MulDivAbs(Abs(v_tangential), Abs(v_tangential), Max(SCALE, allowed))
           + Max(0, Mul(Mul(gravity_m_s2, pixels_per_meter), ny)))

\* lines 128-153: the scalars of the contact branch
contact_values(s, geo, dt) ==
    LET v_normal == Mul(s.ball.vx, geo.nx) + Mul(s.ball.vy, geo.ny)
        v_tangential == Mul(s.ball.vx, -geo.ny) + Mul(s.ball.vy, geo.nx)
        slip == v_tangential - Mul(s.wheel_omega, geo.allowed)
                             - Mul(s.ball_omega, geo.allowed)
        N  == normal_force(v_tangential, geo.allowed, geo.ny)
        Jt == friction_impulse(slip, N, dt)
    IN  [contact |-> TRUE, nx |-> geo.nx, ny |-> geo.ny, allowed |-> geo.allowed,
         dist |-> geo.dist, v_normal |-> v_normal, v_tangential |-> v_tangential,
         v_n |-> bounce(v_normal), slip |-> slip, N |-> N,
         Jmax_static |-> Mul(Mul(mu_static, N), dt),
         Jmax_kinetic |-> Mul(Mul(mu_kinetic, N), dt),
         J_static |-> Div(-slip, 3 * SCALE),
         Jt |-> Jt, v_t |-> v_tangential + Jt]

\* faulty variant: the velocity is corrected, the position is not
resolve_contact_velocity_only(s, c, dt) ==
    LET tx == -c.ny
        ty == c.nx
        inward_accel == Mul(inward_radial_accel_m_s2, pixels_per_meter)
        R  == Max(SCALE, ball_radius_px)
    IN  [s EXCEPT !.ball = [x  |-> s.ball.x,
                            y  |-> s.ball.y,
                            vx |-> Mul(c.v_n, c.nx) + Mul(c.v_t, tx)
                                   + Mul(Mul(-c.nx, inward_accel), dt),
                            vy |-> Mul(c.v_n, c.ny) + Mul(c.v_t, ty)
                                   + Mul(Mul(-c.ny, inward_accel), dt)],
                  !.ball_omega = s.ball_omega + Div(Mul(-2 * SCALE, c.Jt), R)]

\* lines 124-126, 155-164: the contact branch's assignments
resolve_contact(s, c, dt) ==
    LET penetration == c.dist - c.allowed
        tx == -c.ny
        ty == c.nx
        inward_accel == Mul(inward_radial_accel_m_s2, pixels_per_meter)
        R  == Max(SCALE, ball_radius_px)
    IN  [s EXCEPT !.ball = [x  |-> s.ball.x - Mul(c.nx, penetration),
                            y  |-> s.ball.y - Mul(c.ny, penetration),
                            vx |-> Mul(c.v_n, c.nx) + Mul(c.v_t, tx)
                                   + Mul(Mul(-c.nx, inward_accel), dt),
                            vy |-> Mul(c.v_n, c.ny) + Mul(c.v_t, ty)
                                   + Mul(Mul(-c.ny, inward_accel), dt)],
                  !.ball_omega = s.ball_omega + Div(Mul(-2 * SCALE, c.Jt), R)]

\* line 167
spin_ball(s, dt) == [s EXCEPT !.ball_angle = s.ball_angle + Mul(s.ball_omega, dt)]

\* lines 123-167, given the integrated state and its geometry
collide(s, geo, dt) ==
    IF geo.dist > geo.allowed
    THEN [sim |-> spin_ball(resolve_contact(s, contact_values(s, geo, dt), dt), dt),
          tr |-> contact_values(s, geo, dt)]
    ELSE [sim |-> spin_ball(s, dt), tr |-> NoContact]

collide_from(s, dt) == collide(s, rim_geometry(s), dt)

\* update(dt): [sim |-> the state after the call, tr |-> the contact branch's values]
update_trace(s, dt) == collide_from(integrate(s, dt), dt)

update(s, dt) == update_trace(s, dt).sim

-----------------------------------------------------------------------------
(* Bounds and sampled inputs *)

\* calls made on the simulation in one run
MaxSteps == 3

\* update's dt in seconds: 0, 1/60 and the loop's largest step 0.032
DtSamples == {0, 167, 320}

\* window sizes of a resize: one above the 40 px floor of the radius, one below
SizeSamples == {<<400, 300>>, <<100, 60>>}

\* milliseconds clock.tick(120) reports
ClockSamples == {0, 8, 32, 250}

Event(type, w, h, key) == [type |-> type, w |-> w, h |-> h, key |-> key]

\* events pygame.event.get() returns
EventSamples ==
    {Event("QUIT", 0, 0, "none"),
     Event("VIDEORESIZE", 400, 300, "none"),
     Event("MOUSEBUTTONDOWN", 0, 0, "none"),
     Event("KEYDOWN", 0, 0, "K_SPACE"),
     Event("KEYDOWN", 0, 0, "K_r"),
     Event("KEYDOWN", 0, 0, "K_a")}

EventLists(n) == UNION {[1..k -> EventSamples] : k \in 0..n}

-----------------------------------------------------------------------------
(* History: the last call made, the state it was made in, what it computed *)

Obs(op, pre, dt, tr) == [op |-> op, pre |-> pre, dt |-> dt, tr |-> tr]

\* the current loop iteration: the clock's report, the events fetched and
\* handled, the dt update was called with, the calls of update and draw
NoFrame == [tick |-> 0, fetched |-> 0, handled |-> 0, updates |-> 0,
            update_dt |-> 0, pending_at_update |-> 0, draws |-> 0,
            updates_at_draw |-> 0, iter |-> 0]

-----------------------------------------------------------------------------
(* Calls on the simulation, in any order *)

Init ==
    /\ \E angle \in AngleSamples :
          /\ sim = NewSimulation(angle)
          /\ obs = Obs("init", NewSimulation(angle), 0, NoContact)
    /\ steps = 0
    /\ pc = "api"
    /\ dt_ms = 0
    /\ events = <<>>
    /\ running = TRUE
    /\ frame = NoFrame

CallUpdate ==
    /\ pc = "api"
    /\ steps < MaxSteps
    /\ \E dt \in DtSamples :
          LET t == update_trace(sim, dt)
          IN  /\ sim' = t.sim
              /\ obs' = Obs("update", sim, dt, t.tr)
    /\ steps' = steps + 1
    /\ UNCHANGED <<pc, dt_ms, events, running, frame>>

CallResize ==
    /\ pc = "api"
    /\ steps < MaxSteps
    /\ \E size \in SizeSamples, angle \in AngleSamples :
          /\ sim' = resize(sim, size[1], size[2], angle)
          /\ obs' = Obs("resize", sim, 0, NoContact)
    /\ steps' = steps + 1
    /\ UNCHANGED <<pc, dt_ms, events, running, frame>>

CallPlaceBall ==
    /\ pc = "api"
    /\ steps < MaxSteps
    /\ \E angle \in AngleSamples :
          /\ sim' = place_ball_near_rim(sim, angle)
          /\ obs' = Obs("place_ball_near_rim", sim, 0, NoContact)
    /\ steps' = steps + 1
    /\ UNCHANGED <<pc, dt_ms, events, running, frame>>

CallRandomizeSpin ==
    /\ pc = "api"
    /\ steps < MaxSteps
    /\ \E impulse \in UniformSamples(spin_impulse_min, spin_impulse_max) :
          /\ sim' = randomize_spin(sim, impulse)
          /\ obs' = Obs("randomize_spin", sim, 0, NoContact)
    /\ steps' = steps + 1
    /\ UNCHANGED <<pc, dt_ms, events, running, frame>>

Next == CallUpdate \/ CallResize \/ CallPlaceBall \/ CallRandomizeSpin

Spec == Init /\ [][Next]_vars

-----------------------------------------------------------------------------
(* main(): the frame loop *)

\* faulty variant: no upper clamp
clamp_dt_ms_below_only(t) == Max(0, t)

\* line 278
clamp_dt_ms(t) == Max(0, Min(32, t))

\* line 279: dt_ms / 1000.0
seconds(ms) == Div(ms * SCALE, 1000 * SCALE)

MainInit ==
    /\ \E angle \in AngleSamples :
          /\ sim = NewSimulation(angle)
          /\ obs = Obs("init", NewSimulation(angle), 0, NoContact)
    /\ steps = 0
    /\ pc = "tick"
    /\ dt_ms = 0
    /\ events = <<>>
    /\ running = TRUE
    /\ frame = NoFrame

\* lines 275-281: the loop test, clock.tick, the clamp, pygame.event.get()
Tick ==
    /\ pc = "tick"
    /\ running
    /\ steps < MaxSteps
    /\ \E t \in ClockSamples, evs \in EventLists(MaxSteps - steps - 1) :
          /\ dt_ms' = clamp_dt_ms(t)
          /\ events' = evs
          /\ frame' = [NoFrame EXCEPT !.tick = t, !.fetched = Len(evs),
                                      !.iter = frame.iter + 1]
    /\ pc' = "events"
    /\ UNCHANGED <<sim, obs, steps, running>>

\* lines 282-283
HandleQuit ==
    /\ pc = "events"
    /\ events # <<>>
    /\ Head(events).type = "QUIT"
    /\ running' = FALSE
    /\ events' = Tail(events)
    /\ steps' = steps + 1
    /\ frame' = [frame EXCEPT !.handled = @ + 1]
    /\ UNCHANGED <<sim, obs, pc, dt_ms>>

\* lines 284-286
HandleResize ==
    /\ pc = "events"
    /\ events # <<>>
    /\ Head(events).type = "VIDEORESIZE"
    /\ \E angle \in AngleSamples :
          /\ sim' = resize(sim, Head(events).w, Head(events).h, angle)
          /\ obs' = Obs("resize", sim, 0, NoContact)
    /\ events' = Tail(events)
    /\ steps' = steps + 1
    /\ frame' = [frame EXCEPT !.handled = @ + 1]
    /\ UNCHANGED <<pc, dt_ms, running>>

\* lines 287-291
HandleSpin ==
    /\ pc = "events"
    /\ events # <<>>
    /\ \/ Head(events).type = "MOUSEBUTTONDOWN"
       \/ Head(events).type = "KEYDOWN" /\ Head(events).key = "K_SPACE"
    /\ \E impulse \in UniformSamples(spin_impulse_min, spin_impulse_max) :
          /\ sim' = randomize_spin(sim, impulse)
          /\ obs' = Obs("randomize_spin", sim, 0, NoContact)
    /\ events' = Tail(events)
    /\ steps' = steps + 1
    /\ frame' = [frame EXCEPT !.handled = @ + 1]
    /\ UNCHANGED <<pc, dt_ms, running>>

\* lines 292-293
HandleReset ==
    /\ pc = "events"
    /\ events # <<>>
    /\ Head(events).type = "KEYDOWN"
    /\ Head(events).key = "K_r"
    /\ \E angle \in AngleSamples :
          /\ sim' = place_ball_near_rim(sim, angle)
          /\ obs' = Obs("place_ball_near_rim", sim, 0, NoContact)
    /\ events' = Tail(events)
    /\ steps' = steps + 1
    /\ frame' = [frame EXCEPT !.handled = @ + 1]
    /\ UNCHANGED <<pc, dt_ms, running>>

\* lines 289-293: a key that is neither space nor r
HandleOtherKey ==
    /\ pc = "events"
    /\ events # <<>>
    /\ Head(events).type = "KEYDOWN"
    /\ Head(events).key \notin {"K_SPACE", "K_r"}
    /\ events' = Tail(events)
    /\ steps' = steps + 1
    /\ frame' = [frame EXCEPT !.handled = @ + 1]
    /\ UNCHANGED <<sim, obs, pc, dt_ms, running>>

\* line 295, once the for loop has run out of events
FrameUpdate ==
    /\ pc = "events"
    /\ events = <<>>
    /\ LET dt == seconds(dt_ms)
           t  == update_trace(sim, dt)
       IN  /\ sim' = t.sim
           /\ obs' = Obs("update", sim, dt, t.tr)
           /\ frame' = [frame EXCEPT !.updates = @ + 1, !.update_dt = dt,
                                     !.pending_at_update = frame.fetched - frame.handled]
    /\ steps' = steps + 1
    /\ pc' = "draw"
    /\ UNCHANGED <<dt_ms, events, running>>

\* lines 296-297: draw reads the state and changes none of it
Draw ==
    /\ pc = "draw"
    /\ frame' = [frame EXCEPT !.draws = @ + 1, !.updates_at_draw = frame.updates]
    /\ pc' = "tick"
    /\ UNCHANGED <<sim, obs, steps, dt_ms, events, running>>

\* lines 275, 299-300: the loop test fails
Exit ==
    /\ pc = "tick"
    /\ ~running
    /\ pc' = "exit"
    /\ UNCHANGED <<sim, obs, steps, dt_ms, events, running, frame>>

MainNext ==
    \/ Tick
    \/ HandleQuit
    \/ HandleResize
    \/ HandleSpin
    \/ HandleReset
    \/ HandleOtherKey
    \/ FrameUpdate
    \/ Draw
    \/ Exit

MainSpec == MainInit /\ [][MainNext]_vars

-----------------------------------------------------------------------------
(* Measurements used by the properties *)

\* rounding tolerance of a length: 0.01 px
LenEps == SCALE \div 100

\* rounding tolerance of a speed: 0.1 px/s
SpeedEps == SCALE \div 10

Near(a, b, eps) == Abs(a - b) <= eps

\* distance of the ball from the wheel center
BallDist(s) == Hypot(s.ball.x - s.center_x, s.ball.y - s.center_y)

Allowed(s) == s.wheel_radius_px - ball_radius_px

\* the ball's velocity along the unit vector <<ux, uy>>
Along(s, ux, uy) == Mul(s.ball.vx, ux) + Mul(s.ball.vy, uy)

\* unit vector from the wheel center to the ball
RadialX(s) == Div(s.ball.x - s.center_x, BallDist(s))

RadialY(s) == Div(s.ball.y - s.center_y, BallDist(s))

IsUpdate == obs.op = "update"

IsContact == obs.op = "update" /\ obs.tr.contact

Sticking == IsContact /\ Abs(Div(-obs.tr.slip, 3 * SCALE)) <= Mul(Mul(mu_static, obs.tr.N), obs.dt)

Sliding == IsContact /\ ~Sticking

IsPlacement == obs.op \in {"init", "place_ball_near_rim", "resize"}

\* slip recomputed after a contact step from the post-impulse tangential
\* velocity, the wheel surface speed and the post-impulse ball spin
SlipAfter ==
    obs.tr.v_t - Mul(sim.wheel_omega, obs.tr.allowed)
               - Mul(sim.ball_omega, obs.tr.allowed)

-----------------------------------------------------------------------------
(* Properties *)

\* C1: after every operation (construction, update with dt in [0, 0.032],
\* resize, reset, spin impulse) the ball's distance from the wheel center is at
\* most wheel_radius_px - ball_radius_px, up to rounding tolerance.
C1_Containment == BallDist(sim) <= Allowed(sim) + LenEps

\* a contact step that found the ball outside the rim and pushed it back onto it
C1_Witness ==
    /\ IsContact
    /\ obs.dt > 0
    /\ obs.tr.dist > obs.tr.allowed + SCALE
    /\ Near(BallDist(sim), Allowed(sim), LenEps)

\* C2 (as claimed): in a sticking contact step the impulse is -slip/3 and the
\* slip recomputed after the step is zero.
C2_StickingCancelsSlip ==
    Sticking => /\ obs.tr.Jt = Div(-obs.tr.slip, 3 * SCALE)
                /\ Near(SlipAfter, 0, SpeedEps)

\* C3: in every contact step N = max(0, v_t^2/max(1, allowed) + max(0, g*ny));
\* the impulse is -slip/3 when |slip/3| <= mu_static*N*dt and otherwise
\* mu_kinetic*N*dt in magnitude with the sign opposite to slip; either way
\* |J| <= mu_static*N*dt, and the tangential velocity gains exactly J.
C3_FrictionRegime ==
    IsContact =>
        LET t  == obs.tr
            g  == Mul(gravity_m_s2, pixels_per_meter)
            cap_static  == Mul(Mul(mu_static, t.N), obs.dt)
            cap_kinetic == Mul(Mul(mu_kinetic, t.N), obs.dt)
            third == Div(-t.slip, 3 * SCALE)
        IN  /\ t.N = Max(0, MulDivAbs(Abs(t.v_tangential), Abs(t.v_tangential),
                                      Max(SCALE, t.allowed))
                            + Max(0, Mul(g, t.ny)))
            /\ Abs(third) <= cap_static => t.Jt = third
            /\ Abs(third) > cap_static =>
                  /\ Abs(t.Jt) = cap_kinetic
                  /\ Sgn(t.Jt) * Sgn(t.slip) <= 0
                  /\ t.Jt = -Sgn(t.slip) * cap_kinetic
            /\ Abs(t.Jt) <= cap_static
            /\ t.v_t = t.v_tangential + t.Jt

\* a sliding step whose slip is negative, so the impulse is positive
C3_Witness == Sliding /\ obs.dt > 0 /\ obs.tr.slip < 0 /\ obs.tr.Jt > 0

\* C4 (as claimed): update(0) leaves the whole state unchanged.
C4_UpdateZeroExact == (IsUpdate /\ obs.dt = 0) => sim = obs.pre

\* C4 (amended): update(0) leaves wheel_angle, wheel_omega, ball_angle,
\* ball_omega and the geometry unchanged, and the ball's position and velocity
\* unchanged up to rounding tolerance.
C4_UpdateZeroNumeric ==
    (IsUpdate /\ obs.dt = 0) =>
        /\ [sim EXCEPT !.ball = obs.pre.ball] = obs.pre
        /\ Near(sim.ball.x, obs.pre.ball.x, LenEps)
        /\ Near(sim.ball.y, obs.pre.ball.y, LenEps)
        /\ Near(sim.ball.vx, obs.pre.ball.vx, SpeedEps)
        /\ Near(sim.ball.vy, obs.pre.ball.vy, SpeedEps)

\* update(0) called with the ball a rounding error outside the rim: the contact
\* branch is entered
C4_Witness == IsContact /\ obs.dt = 0 /\ obs.pre.ball_omega # 0

\* C5: randomize_spin raises wheel_omega by an amount in
\* [spin_impulse_min, spin_impulse_max] over its value before the call and
\* changes nothing else.
C5_SpinAdditive ==
    obs.op = "randomize_spin" =>
        /\ sim.wheel_omega - obs.pre.wheel_omega >= spin_impulse_min
        /\ sim.wheel_omega - obs.pre.wheel_omega <= spin_impulse_max
        /\ sim.wheel_omega > obs.pre.wheel_omega
        /\ [sim EXCEPT !.wheel_omega = obs.pre.wheel_omega] = obs.pre

\* a call made on a wheel that an earlier call has already sped up
C5_Witness ==
    /\ obs.op = "randomize_spin"
    /\ obs.pre.wheel_omega >= (4 * SCALE) \div 10 + spin_impulse_min
    /\ sim.wheel_omega >= (4 * SCALE) \div 10 + 2 * spin_impulse_min

\* C6: after place_ball_near_rim (constructor, resize, reset) the ball is at
\* distance wheel_radius_px - ball_radius_px - 1 from the center, its speed is
\* ball_boost_speed_m_s * pixels_per_meter, its velocity has no radial
\* component and points along the radial unit vector rotated by +90 degrees.
C6_Placement ==
    IsPlacement =>
        LET boost == Mul(ball_boost_speed_m_s, pixels_per_meter)
            rx == RadialX(sim)
            ry == RadialY(sim)
        IN  /\ Near(BallDist(sim), sim.wheel_radius_px - ball_radius_px - SCALE, LenEps)
            /\ Near(Hypot(sim.ball.vx, sim.ball.vy), boost, SpeedEps)
            /\ Near(Along(sim, rx, ry), 0, SpeedEps)
            /\ Near(Along(sim, -ry, rx), boost, SpeedEps)

\* a reset at an angle off the axes, on a wheel that has been resized
C6_Witness ==
    /\ obs.op = "place_ball_near_rim"
    /\ sim.width # window_size_px
    /\ sim.ball.vx # 0
    /\ sim.ball.vy # 0

\* C7: update never raises |wheel_omega| nor flips its sign, whether or not
\* the ball touches the rim, and moves wheel_angle by wheel_omega' * dt, in the
\* direction of wheel_omega's sign; only randomize_spin raises wheel_omega.
C7_WheelDecay ==
    /\ IsUpdate =>
          /\ Abs(sim.wheel_omega) <= Abs(obs.pre.wheel_omega)
          /\ Sgn(sim.wheel_omega) = Sgn(obs.pre.wheel_omega)
          /\ sim.wheel_angle - obs.pre.wheel_angle = Mul(sim.wheel_omega, obs.dt)
          /\ Sgn(sim.wheel_angle - obs.pre.wheel_angle) * Sgn(sim.wheel_omega) >= 0
    /\ Abs(sim.wheel_omega) > Abs(obs.pre.wheel_omega) => obs.op = "randomize_spin"

\* a contact step of positive length on a wheel sped up by an impulse
C7_Witness ==
    /\ IsContact
    /\ obs.dt > 0
    /\ obs.pre.wheel_omega > (4 * SCALE) \div 10
    /\ sim.wheel_omega < obs.pre.wheel_omega
    /\ sim.wheel_angle > obs.pre.wheel_angle

\* C8: in every loop iteration update is called exactly once, with the clock's
\* report clamped to [0, 32] ms, after every event fetched for the frame has
\* been handled, and draw runs only after update.
C8_FrameLoop ==
    /\ dt_ms \in 0..32
    /\ frame.iter > 0 => dt_ms = Min(32, frame.tick)
    /\ frame.updates <= 1
    /\ frame.draws <= 1
    /\ frame.handled < frame.fetched => frame.updates = 0
    /\ frame.updates = 1 =>
          /\ frame.pending_at_update = 0
          /\ frame.handled = frame.fetched
          /\ frame.update_dt * 1000 = dt_ms * SCALE
          /\ frame.update_dt >= 0
          /\ frame.update_dt * 1000 <= 32 * SCALE
    /\ frame.draws = 1 => frame.updates_at_draw = 1
    /\ pc = "draw" => frame.updates = 1 /\ obs.op = "update" /\ obs.dt = frame.update_dt
    /\ (pc \in {"tick", "exit"} /\ frame.iter > 0) => frame.updates = 1 /\ frame.draws = 1

\* a frame the clock reported late, with two events handled before its update
C8_Witness ==
    /\ pc = "tick"
    /\ frame.tick > 32
    /\ frame.fetched = 2
    /\ frame.handled = 2
    /\ frame.updates = 1
    /\ frame.draws = 1

\* C9: in a contact step a normal velocity v_n > 0 becomes -v_n * wall_restitution
\* and v_n <= 0 stays; the inward bias is then subtracted along the normal, so
\* the ball leaves the step with a normal velocity <= 0.
C9_Bounce ==
    IsContact =>
        LET t == obs.tr
            bias == Mul(Mul(inward_radial_accel_m_s2, pixels_per_meter), obs.dt)
        IN  /\ t.v_normal > 0 => t.v_n = Mul(-t.v_normal, wall_restitution)
            /\ t.v_normal <= 0 => t.v_n = t.v_normal
            /\ t.v_n <= 0
            /\ Near(Along(sim, t.nx, t.ny), t.v_n - bias, SpeedEps)
            /\ Along(sim, t.nx, t.ny) <= 0

\* a contact step that met the wall moving outward and left it moving inward
C9_Witness ==
    /\ IsContact
    /\ obs.dt > 0
    /\ obs.tr.v_normal > SCALE
    /\ Along(sim, obs.tr.nx, obs.tr.ny) < 0

\* C10: place_ball_near_rim changes only the ball's position and velocity;
\* resize changes only width, height, center, wheel_radius_px (to
\* max(40, 0.45*min(w, h) - rim_thickness_px), so >= 40) and the ball's position
\* and velocity; wheel_angle, wheel_omega, ball_angle, ball_omega are kept.
C10_ResetResizeFrame ==
    /\ obs.op = "place_ball_near_rim" => [sim EXCEPT !.ball = obs.pre.ball] = obs.pre
    /\ obs.op = "resize" =>
          /\ sim.wheel_angle = obs.pre.wheel_angle
          /\ sim.wheel_omega = obs.pre.wheel_omega
          /\ sim.ball_angle = obs.pre.ball_angle
          /\ sim.ball_omega = obs.pre.ball_omega
          /\ 2 * sim.center_x = sim.width * SCALE
          /\ 2 * sim.center_y = sim.height * SCALE
          /\ sim.wheel_radius_px =
                Max(40 * SCALE,
                    (45 * Min(sim.width, sim.height) * SCALE) \div 100 - rim_thickness_px)
          /\ sim.wheel_radius_px >= 40 * SCALE

\* a resize to a window so small that the radius is floored, of a ball that spins
C10_Witness ==
    /\ obs.op = "resize"
    /\ obs.pre.ball_omega # 0
    /\ sim.ball_omega = obs.pre.ball_omega
    /\ sim.wheel_radius_px = 40 * SCALE
    /\ sim.width # obs.pre.width

====
